---------------------------- MODULE Spec2Model ----------------------------
(***************************************************************************)
(* QuickViewServer (server.js): the Python execution endpoint              *)
(* POST /api/execute/python, its per-IP rate table, its scratch files and  *)
(* the child-process events that complete a request; the observers and the *)
(* watcher; the file routes GET /api/file/*, GET /api/files and            *)
(* POST /api/format.  The command `quickview init` of bin/quickview.js.    *)
(*                                                                         *)
(* JavaScript runs every callback to completion on one thread, so each     *)
(* callback of the source (the route handler, a 'data' listener, the       *)
(* 'close' listener, the 'error' listener) is one action.  What the        *)
(* environment does (the clock, the child process, the file system) is an  *)
(* input of the action or an action of its own.                            *)
(***************************************************************************)
EXTENDS Integers, Sequences, FiniteSets, TLC

VARIABLES
  now,                  \* Date.now(), in milliseconds
  pythonExecutionCount, \* this.pythonExecutionCount: clientIP -> timestamps
  tempDir,              \* whether <__dirname>/temp exists
  tempFiles,            \* the scratch files that exist in it
  execs,                \* the child processes whose listeners are still armed
  nextId,               \* number of the next request
  lastReq,              \* what the route handler did, when the step just
                        \* taken is a run of the route handler
  lastResult,           \* the response a 'close'/'error' listener sent, when
                        \* the step just taken is a run of that listener
  crashed,              \* an exception reached the event loop: node has exited
  stopped,              \* SIGINT was handled: stop() ran and node has exited
  admitLog,             \* history: per client, the times of all requests that
                        \* passed the rate check
  limited,              \* history: the clients that got a 429
  spawned,              \* history: number of children spawned so far
  chunked,              \* history: number of chunks the children have written
  faults,               \* history: number of unlinkSync calls the file system
                        \* has refused
  load,                 \* the workload the environment offers in this behaviour
  watchDir,             \* this.watchDir, a path
  disk,                 \* the files below watchDir: relative path -> state
  sockets,              \* socket id -> "new", "connected" or "gone"
  sent,                 \* socket id -> the messages sent to it in the step
                        \* just taken
  watcherQueue,         \* the events chokidar has detected but not yet emitted
  issued,               \* history: number of events chokidar has detected
  handled,              \* history: number of runs of handleFileChange
  lastFile,             \* the response of the file route (GET /api/file/*,
                        \* GET /api/files, POST /api/format) run in the step
                        \* just taken
  project,              \* the directory in which `quickview init` runs
  app                   \* the browser client (QuickViewApp) of one observer

hubVars == <<watchDir, disk, sockets, sent, watcherQueue, issued, handled>>
hubQuiet == <<watchDir, disk, sockets, watcherQueue, issued, handled>>

vars == <<now, pythonExecutionCount, tempDir, tempFiles, execs, nextId,
          lastReq, lastResult, crashed, stopped, admitLog, limited, spawned,
          chunked, faults, load, watchDir, disk, sockets, sent,
          watcherQueue, issued, handled, lastFile, project, app>>

---------------------------------------------------------------------------
(* Program constants *)

WindowMs_HalfMinute == 60000 \div 2
WindowMs == 60000
MaxExecutions_Six == 5 + 1
MaxExecutions == 5
MaxCodeLength == 50000
TimeoutMs == 30000

(* Bounds of the exploration *)

MaxRequests == 7     \* requests of a behaviour that runs children in turn
MaxSpawns == 2       \* children of a behaviour that runs them side by side
MaxChunks == 2       \* chunks a child writes
MaxFaults == 1       \* unlinkSync calls the file system refuses
MaxTime == 61000     \* how long the clock runs when children run in turn
ExecTime == 30000    \* and when they run side by side
MaxEvents == 3       \* changes of the watched directory
MaxSockets == 2      \* connections of observers
MaxFiles == 2        \* names in a project the file routes are asked about
MaxRuns == 2         \* runs of `quickview init` in one directory
MaxLoads == 3        \* selections and file changes seen by one browser client

Clients == {"ip1", "ip2"}

\* by how much the clock advances between two callbacks
RateTicks == {30000, 31000}
ExecTicks == {30000}

---------------------------------------------------------------------------
(* JavaScript values *)

\* null / undefined and numbers, as sequences so that they compare
NULL == <<>>
Num(n) == <<n>>
ABSENT == <<"undefined">>

\* The values a request body can carry as `code`: its JavaScript type, its
\* length in UTF-16 code units and its size in bytes as UTF-8 (the fifth is
\* a text of 50000 two-byte characters).
Codes ==
  { [type |-> "undefined", len |-> 0,     bytes |-> 0],
    [type |-> "string",    len |-> 0,     bytes |-> 0],
    [type |-> "number",    len |-> 0,     bytes |-> 0],
    [type |-> "string",    len |-> 12,    bytes |-> 12],
    [type |-> "string",    len |-> 50000, bytes |-> 100000],
    [type |-> "string",    len |-> 50001, bytes |-> 50001] }

NoCode == [type |-> "undefined", len |-> 0, bytes |-> 0]

\* The values a request body can carry as `filename`
Filenames == {"undefined", "a"}

InvalidCode_TypeOnly(code) == code.type # "string"

\* !code || typeof code !== 'string'
InvalidCode(code) == code.type # "string" \/ code.len = 0

\* code.length > 50000
CodeTooLarge(code) == code.len > MaxCodeLength

\* labels with a path separator: one that climbs, one that descends
TraversalLabels == {"../a", "d/a"}

\* `${filename || 'temp'}_${Date.now()}.py`, to be joined to <__dirname>/temp
TempFile(filename, t) ==
  <<IF filename = "undefined" THEN "temp" ELSE filename, t>>

\* __dirname of server.js, and the scratch directory below it
ServerDir == <<"/", "opt", "quickview">>
ScratchDir == ServerDir \o <<"temp">>

\* the segments of a label, split at '/'
Segments(label) ==
  CASE label = "../a" -> <<"..", "a">>
    [] label = "d/a" -> <<"d", "a">>
    [] OTHER -> <<label>>

\* what path.join does to the '..' segments of an absolute path
RECURSIVE Normalize(_)
Normalize(p) ==
  IF p = <<>> THEN <<>>
  ELSE LET front == Normalize(SubSeq(p, 1, Len(p) - 1))
           last == p[Len(p)]
       IN IF last # ".." THEN Append(front, last)
          ELSE IF Len(front) > 1 THEN SubSeq(front, 1, Len(front) - 1)
          ELSE front

\* path.join(__dirname, 'temp', file): the directory the scratch file is
\* written to and its name there (the suffix belongs to the last segment)
TempPath(file) ==
  LET segs == Segments(file[1])
  IN [dir |-> Normalize(ScratchDir \o SubSeq(segs, 1, Len(segs) - 1)),
      name |-> <<segs[Len(segs)], file[2]>>]

\* Bytes a child writes: "a" is an ASCII byte, "L" the lead byte and "T" the
\* trail byte of a two-byte UTF-8 character.
Chunks == { <<"a">>, <<"L">>, <<"T">> }

\* Buffer.prototype.toString(): UTF-8 decoding of one chunk on its own; a
\* byte that does not form a character becomes U+FFFD ("?")
RECURSIVE BufferToString(_)
BufferToString(b) ==
  IF b = <<>> THEN <<>>
  ELSE IF Head(b) = "a" THEN <<"a">> \o BufferToString(Tail(b))
  ELSE IF Head(b) = "L" /\ Len(b) > 1 /\ b[2] = "T"
       THEN <<"e'">> \o BufferToString(Tail(Tail(b)))
  ELSE <<"?">> \o BufferToString(Tail(b))

---------------------------------------------------------------------------
(* Responses *)

Response(status, success, error, output, exitCode) ==
  [status |-> status, success |-> success, error |-> error,
   output |-> output, exitCode |-> exitCode]

NoResponse == Response(0, FALSE, ABSENT, ABSENT, ABSENT)

TooManyResponse ==
  Response(429, FALSE,
     <<"Too many Python executions. Please wait a minute before trying again.">>,
     ABSENT, ABSENT)

InvalidResponse ==
  Response(400, FALSE, <<"Invalid Python code provided">>, ABSENT, ABSENT)

TooLargeResponse ==
  Response(400, FALSE, <<"Python code too large (max 50KB)">>, ABSENT, ABSENT)

WriteFailedResponse ==
  Response(500, FALSE, <<"Failed to create temp file">>, ABSENT, ABSENT)

CloseResponse_TimeoutMessage(code, output, error) ==
  Response(200, code = Num(0),
     IF code = NULL
     THEN <<"Python script execution timed out (30 second limit)">>
     ELSE error,
     output, code)

CloseResponse_Falsy(code, output, error) ==
  Response(200, code \in {Num(0), NULL}, error, output, code)

\* res.json in python.on('close')
CloseResponse(code, output, error) ==
  Response(200, code = Num(0), error, output, code)

\* the two branches of python.on('error')
ErrorResponse(errCode, output) ==
  IF errCode = "ETIMEDOUT"
  THEN Response(408, FALSE,
         <<"Python script execution timed out (30 second limit)">>,
         output, Num(-1))
  ELSE Response(500, FALSE,
         <<"Failed to execute Python script: ", errCode>>,
         output, Num(-1))

---------------------------------------------------------------------------
(* Rate limiting *)

RecentExecutions_Inclusive(executions, t) ==
  SelectSeq(executions, LAMBDA time : t - time <= WindowMs)

\* executions.filter(time => now - time < 60000)
RecentExecutions(executions, t) ==
  SelectSeq(executions, LAMBDA time : t - time < WindowMs)

RateLimited_OffByOne(recent) == Len(recent) > MaxExecutions

\* recentExecutions.length >= 5
RateLimited(recent) == Len(recent) >= MaxExecutions

ExecutionsOf_Shared(table, c) == table["ip1"] \o table["ip2"]

\* this.pythonExecutionCount.get(clientIP) || []
ExecutionsOf(table, c) == table[c]

\* history: how many requests of client c passed the rate check in the
\* 60 seconds that end at t
AdmittedWithin(c, t) ==
  Cardinality({ i \in 1..Len(admitLog[c]) : t - admitLog[c][i] < 60000 })

---------------------------------------------------------------------------
(* What a step shows to the caller.  lastReq and lastResult describe the   *)
(* step just taken only; every other step resets them.                     *)

\* nothing is sent to any socket
NoSent == [k \in DOMAIN sent |-> <<>>]

\* no file route has run
NoFile == [api |-> "none", path |-> <<>>, status |-> 0, body |-> <<>>]

\* a step of the executor: nothing is sent and the project stays as it is
HubSilent ==
  /\ sent' = NoSent
  /\ lastFile' = NoFile
  /\ UNCHANGED <<watchDir, disk, sockets, handled, project, stopped, app>>

\* a step of the executor the watcher does not notice
HubIdle ==
  /\ HubSilent
  /\ UNCHANGED <<watcherQueue, issued>>

NoReq ==
  [handled |-> FALSE, client |-> "ip1", prior |-> 0, runnable |-> FALSE,
   code |-> NoCode, resp |-> NoResponse]

NoResult ==
  [via |-> "none", client |-> "ip1", resp |-> NoResponse,
   exit |-> NULL, signal |-> "none", timedOut |-> FALSE, errCode |-> "ok",
   output |-> <<>>, error |-> <<>>, outBytes |-> <<>>, errBytes |-> <<>>,
   removed |-> FALSE, warned |-> FALSE]

---------------------------------------------------------------------------
(* POST /api/execute/python: the route handler, from the rate check to the  *)
(* registration of the listeners, runs without interruption.               *)
(*   c         req.ip                                                      *)
(*   code      req.body.code                                               *)
(*   filename  req.body.filename                                           *)
(*   writeOK   whether fs.writeFileSync succeeds                           *)
(*   spawnRes  "ok", or the error code with which spawn('python3') fails   *)

SpawnErrors == {"ENOENT"}

\* The inputs of the route handler.  What a request that fails validation
\* carries as filename, and what the file system and spawn() would have
\* done for it, has no effect: one choice stands for all.
ExecuteInputs ==
  { in \in [code : Codes, filename : Filenames, writeOK : BOOLEAN,
            spawnRes : {"ok"} \cup SpawnErrors] :
      /\ (InvalidCode(in.code) \/ CodeTooLarge(in.code)) =>
            (in.filename = "undefined" /\ in.writeOK /\ in.spawnRes = "ok")
      /\ ~in.writeOK => in.spawnRes = "ok" }

\* the inputs with which the handler gets a child running
RunnableInputs ==
  { in \in ExecuteInputs :
      /\ ~InvalidCode(in.code) /\ ~CodeTooLarge(in.code)
      /\ in.writeOK /\ in.spawnRes = "ok" }

\* a short script without a label
PlainInputs ==
  { in \in RunnableInputs : in.code.len < 50000 /\ in.filename = "undefined" }

\* a short script with a label that holds a path separator
TraversalInputs ==
  { [in EXCEPT !.filename = l] : in \in PlainInputs, l \in TraversalLabels }

---------------------------------------------------------------------------
(* Paths.  A path is the sequence of its segments; an absolute path starts  *)
(* with the segment "/".                                                    *)

\* options.watchDir || process.cwd(): absolute when it comes from
\* process.cwd() or from the command line tool, relative when the server is
\* started with a relative directory
WatchDirs == { <<"/", "srv", "proj">>, <<"proj">> }

IsAbsolute(p) == p # <<>> /\ p[1] = "/"

IsPrefix(a, b) == Len(a) <= Len(b) /\ SubSeq(b, 1, Len(a)) = a

\* path.join(a, name)
PathJoin(a, name) == Append(a, name)

\* path.relative(from, to): the rest of `to` below `from` (chokidar reports
\* paths below the watched directory only)
PathRelative(from, to) ==
  IF IsPrefix(from, to) THEN SubSeq(to, Len(from) + 1, Len(to))
  ELSE <<"..">> \o to

---------------------------------------------------------------------------
(* The watched directory.  disk maps the path of a file, relative to       *)
(* watchDir, to "none" (no such file), "text" (a readable file as its       *)
(* author wrote it), "formatted" (a readable file as POST /api/format wrote *)
(* it), "locked" (a file that cannot be read) or "broken" (a name that      *)
(* readdir lists but stat cannot resolve: a dangling link, an entry removed *)
(* during the scan); a directory exists when a name below it does.          *)

HubFiles == { <<"a.js">>, <<"lib", "b.js">> }

\* the names a project can hold; all of them are in lower case
TreeFiles ==
  HubFiles \cup
  { <<".env">>, <<".a.html">>, <<"run">>, <<"x.exe">>,
    <<".git", "b.js">>, <<"node_modules", "b.js">> }

\* the files programs write while the hidden files are looked at
HiddenFiles == { <<".env">>, <<".git", "b.js">> }

NoFiles == [p \in TreeFiles |-> "none"]

\* chokidar's `ignored: /node_modules|\.git|\.DS_Store/`, tested against the
\* whole path
Ignored(p) == \E i \in 1..Len(p) : p[i] \in {"node_modules", ".git"}

\* what fs.readFileSync(.., 'utf8') returns for a file as its author wrote it
Content(rel) == <<"text of">> \o rel

\* formatJavaScript(content): the text with spaces put around `=` and
\* after `{`, and with every line indented anew
FormatJavaScript(content) == <<"formatted">> \o content

Readable == {"text", "formatted"}

\* what fs.readFileSync(.., 'utf8') returns for a readable file
FileText(d, rel) ==
  IF d[rel] = "formatted" THEN FormatJavaScript(Content(rel))
  ELSE Content(rel)

Present(d) == { p \in DOMAIN d : d[p] # "none" }

\* fs.readdirSync(watchDir/prefix)
ReadDir(d, prefix) ==
  { p[Len(prefix) + 1] :
      p \in { q \in Present(d) : Len(q) > Len(prefix) /\ IsPrefix(prefix, q) } }

\* fs.statSync(watchDir/rel).isDirectory()
IsDirectory(d, rel) ==
  \E p \in Present(d) : Len(p) > Len(rel) /\ IsPrefix(rel, p)

\* fs.statSync(watchDir/rel) throws
StatThrows(d, rel) == rel \in DOMAIN d /\ d[rel] = "broken"

\* fs.existsSync(watchDir/rel)
ExistsSync(d, rel) ==
  \/ IsDirectory(d, rel)
  \/ rel \in DOMAIN d /\ d[rel] \in Readable \cup {"locked"}

\* fs.readFileSync(watchDir/rel, 'utf8') returns
ReadFileOK(d, rel) == rel \in DOMAIN d /\ d[rel] \in Readable

\* file.startsWith('.'), file.endsWith('.html'), path.extname(file)
StartsWithDot(name) == name \in {".env", ".git", ".a.html"}
EndsWithHtml(name) == name \in {".a.html", "i.html"}
ExtName(name) ==
  CASE name \in {"a.js", "b.js"} -> ".js"
    [] name \in {".a.html", "i.html"} -> ".html"
    [] name = "x.exe" -> ".exe"
    [] name \in {"temp_0.py", "temp_n.py"} -> ".py"
    [] OTHER -> ""

\* path.basename(p)
Basename(p) == p[Len(p)]

\* stat.size
FileSize(d, rel) == Len(FileText(d, rel))

\* the names in the order of String.prototype.localeCompare
NameOrder ==
  <<".a.html", ".env", ".git", "a.js", "b.js", "i.html", "lib",
    "node_modules", "run", "temp", "temp_0.py", "temp_n.py", "x.exe">>
Rank(name) == CHOOSE i \in 1..Len(NameOrder) : NameOrder[i] = name

\* The order in which fs.readdirSync lists the names of a directory is the
\* file system's: by name, or the other way round.
Reverse(s) == [i \in 1..Len(s) |-> s[Len(s) + 1 - i]]
ScanOrders == { NameOrder, Reverse(NameOrder) }

\* the names of the set S in the order `order`
RECURSIVE ScanSeq(_, _)
ScanSeq(S, order) ==
  IF order = <<>> THEN <<>>
  ELSE (IF Head(order) \in S THEN <<Head(order)>> ELSE <<>>)
         \o ScanSeq(S, Tail(order))

Before_NameOnly(a, b) == Rank(a.name) < Rank(b.name)

\* the comparison of items.sort(): directories first, then by name
Before(a, b) ==
  IF a.type = b.type THEN Rank(a.name) < Rank(b.name)
  ELSE a.type = "directory"

\* the names the loop of getFileTree passes over (`continue`)
Skipped(file) ==
  \/ StartsWithDot(file) /\ ~EndsWithHtml(file)
  \/ file = "node_modules"

\* getFileTree(dir, prefix), dir being watchDir/prefix.  The loop over the
\* names is inside one try block: the first statSync that throws ends it,
\* and the items pushed until then are sorted and returned.
RECURSIVE GetFileTree(_, _)
GetFileTree(d, prefix) ==
  LET files == ScanSeq(ReadDir(d, prefix), load.scan)
      Thrown(i) ==
        ~Skipped(files[i]) /\ StatThrows(d, PathJoin(prefix, files[i]))
      done ==
        IF \E i \in 1..Len(files) : Thrown(i)
        THEN (CHOOSE i \in 1..Len(files) :
                Thrown(i) /\ \A j \in 1..(i - 1) : ~Thrown(j)) - 1
        ELSE Len(files)
      visited == SelectSeq(SubSeq(files, 1, done), LAMBDA f : ~Skipped(f))
      Item(file) ==
        LET relativePath == PathJoin(prefix, file)
        IN IF IsDirectory(d, relativePath)
           THEN [name |-> file, type |-> "directory", path |-> relativePath,
                 children |-> GetFileTree(d, relativePath)]
           ELSE [name |-> file, type |-> "file", path |-> relativePath,
                 extension |-> ExtName(file),
                 size |-> FileSize(d, relativePath)]
      items == [i \in 1..Len(visited) |-> Item(visited[i])]
  IN SortSeq(items, Before)

\* the name of a scratch file as one string; temp_n.py stands for the
\* scratch files of other labels and later times
ScratchName(file) ==
  IF file = <<"temp", 0>> THEN "temp_0.py" ELSE "temp_n.py"

\* whether the watcher sees the scratch file: it lies below the watched
\* directory and its path is not ignored
Watched(file) ==
  /\ IsPrefix(watchDir, TempPath(file).dir)
  /\ ~Ignored(TempPath(file).dir)

\* the path of a scratch file relative to the watched directory
ScratchRel(file) ==
  PathRelative(watchDir, TempPath(file).dir) \o <<ScratchName(file)>>

\* the files below the watched directory as the server finds them: those of
\* the project and, when the scratch directory lies below the watched
\* directory, the scratch files
Seen(d) ==
  [p \in { ScratchRel(f) : f \in { g \in tempFiles : Watched(g) } }
     |-> "text"] @@ d

ReadFileIfExists_Unguarded(d, filePath) ==
  Content(PathRelative(watchDir, filePath))

\* readFileIfExists(filePath)
ReadFileIfExists(d, filePath) ==
  LET rel == PathRelative(watchDir, filePath)
  IN IF ReadFileOK(d, rel) THEN FileText(d, rel) ELSE NULL

---------------------------------------------------------------------------
(* The file routes *)

FileResponse(api, p, status, body) ==
  [api |-> api, path |-> p, status |-> status, body |-> body]

AllowedExtensions ==
  {".html", ".jsx", ".js", ".py", ".css", ".json", ".md", ".svg", ".txt",
   ".xml", ".yaml", ".yml"}

\* GET /api/file/*: the response to a request for req.params[0]
GetFile(d, requestedPath) ==
  LET filename == Basename(requestedPath)
      ext == ExtName(filename)
      Refused(status, error) ==
        FileResponse("file", requestedPath, status, [error |-> error])
  IN IF StartsWithDot(filename) /\ ~EndsWithHtml(filename)
     THEN Refused(403, "Access to hidden files denied")
     ELSE IF ext # "" /\ ext \notin AllowedExtensions
     THEN Refused(403, "File type not supported for security reasons")
     ELSE IF ~ExistsSync(d, requestedPath)
     THEN Refused(404, "File not found")
     ELSE IF ReadFileOK(d, requestedPath)
     THEN FileResponse("file", requestedPath, 200,
            [content |-> FileText(d, requestedPath), extension |-> ext,
             filename |-> filename, path |-> requestedPath])
     ELSE Refused(500, "Unable to read file")

\* the paths that are asked for
RequestPaths ==
  { <<".env">>, <<".a.html">>, <<".git", "b.js">>, <<"run">>, <<"x.exe">>,
    <<"a.js">>, <<"lib">>, <<"lib", "b.js">> }

\* the switch of POST /api/format
FormattedExtensions == {".js", ".jsx", ".json", ".html", ".css"}

\* the bodies POST /api/format is sent; <<>> is a filepath that is missing
FormatInputs ==
  [filepath : { <<"a.js">>, <<".env">> }, extension : {".js", ".exe"}]
    \cup { [filepath |-> <<>>, extension |-> ".js"] }

\* The workloads: many requests of two clients none of which gets as far
\* as spawn(); many requests of one client, all with code that runs, whose
\* children run one after the other; requests of one client that spawn
\* children side by side; two children of any clients that write output
\* side by side; observers that come and go while files change; requests to
\* the file routes about a project, whose names the file system lists in
\* one order or the other; runs of `quickview init` in one directory; one
\* request whose label holds a path separator; an observer while programs
\* write hidden files; an observer and one request when the watched
\* directory is the directory of server.js; requests side by side and a
\* SIGINT; a browser client that selects files while they change.
---------------------------------------------------------------------------
(* quickview init (bin/quickview.js), run in the directory `project`.  An    *)
(* example file is "none" (no such file), "user" (a file of that name that   *)
(* was there before) or "example" (the text init writes).  package.json is   *)
(* absent, not JSON, or an object: its scripts in the order of their keys    *)
(* and the layout of its text.                                               *)

ExampleNames ==
  {"quickview-demo.html", "quickview-demo.py", "quickview-demo.jsx"}

PackageJsons ==
  { [kind |-> "none", layout |-> "none", scripts |-> <<>>],
    [kind |-> "invalid", layout |-> "author", scripts |-> <<>>],
    [kind |-> "json", layout |-> "author", scripts |-> <<>>],
    [kind |-> "json", layout |-> "author",
     scripts |-> << <<"preview", "vite preview">> >>] }

\* obj[k] = v on an object whose keys keep the order of their insertion
SetKey(obj, k, v) ==
  IF \E i \in 1..Len(obj) : obj[i][1] = k
  THEN [i \in 1..Len(obj) |-> IF obj[i][1] = k THEN <<k, v>> ELSE obj[i]]
  ELSE Append(obj, <<k, v>>)

\* the package.json update: parse, set the two scripts, write the object
\* back with JSON.stringify(packageJson, null, 2); nothing when the file is
\* absent or JSON.parse throws
UpdatePackageJson(pkg) ==
  IF pkg.kind # "json" THEN pkg
  ELSE [kind |-> "json", layout |-> "indent2",
        scripts |-> SetKey(SetKey(pkg.scripts, "preview", "quickview start"),
                           "preview:port", "quickview start --port")]

NoProject ==
  [examples |-> [f \in ExampleNames |-> "none"],
   packageJson |-> [kind |-> "none", layout |-> "none", scripts |-> <<>>],
   runs |-> 0, createdFiles |-> 0, report |-> "none"]

\* the directories in which init is run for the first time
Projects ==
  { [NoProject EXCEPT !.examples = ex, !.packageJson = pkg] :
      ex \in [ExampleNames -> {"none", "user"}], pkg \in PackageJsons }

ExampleMissing_Always(examples, filename) == TRUE

\* !fs.existsSync(filePath)
ExampleMissing(examples, filename) == examples[filename] = "none"

NoExecs ==
  [clients |-> {}, inputs |-> {}, requests |-> 0, spawns |-> 0, live |-> 0,
   chunks |-> 0, faults |-> 0, ticks |-> {}, until |-> 0]

NoHub ==
  [events |-> 0, conns |-> 0, watchDirs |-> { <<"/", "srv", "proj">> },
   names |-> {}, signals |-> FALSE, loads |-> 0, files |-> 0, scan |-> NameOrder, listing |-> FALSE,
   paths |-> {}, formats |-> {}, projects |-> {NoProject}, runs |-> 0]

\* the projects with which a behaviour can start: the empty project of the
\* observers, or a project of at most n names for the file routes
Disks(n) ==
  IF n = 0 THEN {NoFiles}
  ELSE { d \in [TreeFiles -> {"none", "text", "locked", "broken"}] :
           Cardinality(Present(d)) <= n }

\* requests of one client that spawn children side by side, some of which
\* cannot be spawned or cannot be unlinked
FailureLoad ==
  [clients |-> {"ip1"}, inputs |-> ExecuteInputs,
   requests |-> MaxSpawns, spawns |-> MaxSpawns, live |-> MaxSpawns,
   chunks |-> 0, faults |-> MaxFaults, ticks |-> ExecTicks,
   until |-> ExecTime] @@ NoHub

Loads ==
  { [clients |-> Clients, inputs |-> ExecuteInputs,
      requests |-> MaxRequests, spawns |-> 0, live |-> 0, chunks |-> 0,
      faults |-> 0, ticks |-> RateTicks, until |-> MaxTime] @@ NoHub,
    [clients |-> {"ip1"}, inputs |-> RunnableInputs,
      requests |-> MaxRequests, spawns |-> MaxRequests, live |-> 1,
      chunks |-> 0, faults |-> 0, ticks |-> RateTicks, until |-> MaxTime]
      @@ NoHub,
    FailureLoad,
    [clients |-> Clients, inputs |-> PlainInputs,
      requests |-> 2, spawns |-> 2, live |-> 2, chunks |-> MaxChunks,
      faults |-> 0, ticks |-> ExecTicks, until |-> ExecTime] @@ NoHub,
    [events |-> MaxEvents, conns |-> MaxSockets, watchDirs |-> WatchDirs,
      names |-> HubFiles] @@ NoHub @@ NoExecs,
    [events |-> 2, conns |-> 1, names |-> HiddenFiles] @@ NoHub @@ NoExecs,
    [clients |-> {"ip1"}, inputs |-> PlainInputs, requests |-> 1,
      spawns |-> 1, live |-> 1, chunks |-> 0, faults |-> 0, ticks |-> {},
      until |-> 0, events |-> 2, conns |-> 1, watchDirs |-> {ServerDir}]
      @@ NoHub,
    [projects |-> Projects, runs |-> MaxRuns] @@ NoHub @@ NoExecs,
    [clients |-> {"ip1"}, inputs |-> PlainInputs, requests |-> MaxSpawns,
      spawns |-> MaxSpawns, live |-> MaxSpawns, chunks |-> 0, faults |-> 0,
      ticks |-> {}, until |-> 0, signals |-> TRUE] @@ NoHub,
    [names |-> HubFiles, loads |-> MaxLoads] @@ NoHub @@ NoExecs,
    [clients |-> {"ip1"}, inputs |-> TraversalInputs, requests |-> 1,
      spawns |-> 1, live |-> 1, chunks |-> 0, faults |-> 0, ticks |-> {},
      until |-> 0] @@ NoHub }
  \cup
  { [files |-> MaxFiles, scan |-> s, listing |-> TRUE,
      paths |-> RequestPaths, formats |-> FormatInputs] @@ NoHub @@ NoExecs :
      s \in ScanOrders }

\* new QuickViewApp(): nothing selected, nothing shown
NoApp ==
  [currentFile |-> NULL, pending |-> <<>>, current |-> NULL, code |-> NULL,
   preview |-> NULL, loading |-> FALSE, revs |-> [f \in HubFiles |-> 0],
   calls |-> 0]

Init ==
  /\ now = 0
  /\ pythonExecutionCount = [c \in Clients |-> <<>>]
  /\ tempDir = FALSE
  /\ tempFiles = {}
  /\ execs = <<>>
  /\ nextId = 1
  /\ lastReq = NoReq
  /\ lastResult = NoResult
  /\ crashed = FALSE
  /\ stopped = FALSE
  /\ admitLog = [c \in Clients |-> <<>>]
  /\ limited = {}
  /\ spawned = 0
  /\ chunked = 0
  /\ faults = 0
  /\ load \in Loads
  /\ watchDir \in load.watchDirs
  /\ disk \in Disks(load.files)
  /\ sockets = [k \in 1..load.conns |-> "new"]
  /\ sent = [k \in 1..load.conns |-> <<>>]
  /\ watcherQueue = <<>>
  /\ issued = 0
  /\ handled = 0
  /\ lastFile = NoFile
  /\ project \in load.projects
  /\ app = NoApp

\* chokidar detects a change of a file and will emit `event` for it
Detect(event, rel) ==
  /\ issued < load.events
  /\ issued' = issued + 1
  /\ watcherQueue' = Append(watcherQueue,
       [id |-> issued + 1, event |-> event, path |-> watchDir \o rel])

\* Node emits the 'error' of a failed spawn from process.nextTick: it is the
\* next callback to run, before any other event is handled.
NoTickPending ==
  \A e \in DOMAIN execs : execs[e].state # "spawnfail"

NewExec(c, file, spawnRes) ==
  [client |-> c, tempFile |-> file, started |-> now,
   state |-> IF spawnRes = "ok" THEN "running" ELSE "spawnfail",
   errCode |-> spawnRes,
   output |-> <<>>, error |-> <<>>,       \* let output = '', error = ''
   outBytes |-> <<>>, errBytes |-> <<>>,  \* history: what the child wrote
   answers |-> 0]                         \* history: calls of res.json

\* whether the handler gets as far as spawn()
Spawns(c, code, writeOK) ==
  /\ ~RateLimited(RecentExecutions(ExecutionsOf(pythonExecutionCount, c),
                                   now))
  /\ ~InvalidCode(code)
  /\ ~CodeTooLarge(code)
  /\ writeOK

ExecutePython(c, code, filename, writeOK, spawnRes) ==
  LET executions == ExecutionsOf(pythonExecutionCount, c)
      recentExecutions == RecentExecutions(executions, now)
      pushed == Append(recentExecutions, now)
      tempFile == TempFile(filename, now)
      req == [handled |-> TRUE, client |-> c,
              runnable |-> ~InvalidCode(code) /\ ~CodeTooLarge(code),
              prior |-> AdmittedWithin(c, now), code |-> code,
              resp |-> NoResponse]
  IN
  /\ ~crashed
  /\ ~stopped
  /\ HubSilent
  /\ NoTickPending
  /\ nextId <= load.requests
  /\ Spawns(c, code, writeOK) =>
        spawned < load.spawns /\ Cardinality(DOMAIN execs) < load.live
  /\ IF Spawns(c, code, writeOK) /\ Watched(tempFile)
     THEN Detect(IF tempFile \in tempFiles THEN "change" ELSE "add",
                 ScratchRel(tempFile))
     ELSE UNCHANGED <<watcherQueue, issued>>
  /\ spawned' = IF Spawns(c, code, writeOK) THEN spawned + 1 ELSE spawned
  /\ nextId' = nextId + 1
  /\ lastResult' = NoResult
  /\ UNCHANGED <<now, crashed, chunked, faults, load>>
  /\ IF RateLimited(recentExecutions)
     THEN /\ lastReq' = [req EXCEPT !.resp = TooManyResponse]
          /\ limited' = limited \cup {c}
          /\ UNCHANGED <<pythonExecutionCount, admitLog, tempDir, tempFiles,
                         execs>>
     ELSE /\ UNCHANGED limited
          /\ pythonExecutionCount' =
               [pythonExecutionCount EXCEPT ![c] = pushed]
          /\ admitLog' = [admitLog EXCEPT ![c] = Append(@, now)]
          /\ IF InvalidCode(code)
             THEN /\ lastReq' = [req EXCEPT !.resp = InvalidResponse]
                  /\ UNCHANGED <<tempDir, tempFiles, execs>>
             ELSE IF CodeTooLarge(code)
             THEN /\ lastReq' = [req EXCEPT !.resp = TooLargeResponse]
                  /\ UNCHANGED <<tempDir, tempFiles, execs>>
             ELSE /\ tempDir' =
                       (tempDir \/ IsPrefix(ScratchDir, TempPath(tempFile).dir))
                  /\ IF ~writeOK
                     THEN /\ lastReq' = [req EXCEPT !.resp = WriteFailedResponse]
                          /\ UNCHANGED <<tempFiles, execs>>
                     ELSE /\ tempFiles' = tempFiles \cup {tempFile}
                          /\ execs' = execs @@
                               (nextId :> NewExec(c, tempFile, spawnRes))
                          /\ lastReq' = req

---------------------------------------------------------------------------
(* The clock.  A timer of the event loop fires when it is due: time does   *)
(* not pass the 30 s deadline of a child that is still running.            *)

Tick(d) ==
  /\ ~crashed
  /\ ~stopped
  /\ HubIdle
  /\ NoTickPending
  /\ now + d <= load.until
  /\ \A e \in DOMAIN execs :
        execs[e].state = "running" => now + d <= execs[e].started + TimeoutMs
  /\ now' = now + d
  /\ lastReq' = NoReq
  /\ lastResult' = NoResult
  /\ UNCHANGED <<pythonExecutionCount, tempDir, tempFiles, execs, nextId,
                 crashed, admitLog, spawned, chunked, faults, load, limited>>

---------------------------------------------------------------------------
(* The child process *)

Retire(e) == [i \in DOMAIN execs \ {e} |-> execs[i]]

\* python.stdout.on('data', data => { output += data.toString() })
StdoutData(e, chunk) ==
  /\ ~crashed
  /\ ~stopped
  /\ HubIdle
  /\ NoTickPending
  /\ e \in DOMAIN execs
  /\ execs[e].state = "running"
  /\ chunked < load.chunks
  /\ chunked' = chunked + 1
  /\ execs' = [execs EXCEPT
       ![e].output = @ \o BufferToString(chunk),
       ![e].outBytes = @ \o chunk]
  /\ lastReq' = NoReq
  /\ lastResult' = NoResult
  /\ UNCHANGED <<now, pythonExecutionCount, tempDir, tempFiles, nextId,
                 crashed, admitLog, spawned, faults, load, limited>>

\* python.stderr.on('data', data => { error += data.toString() })
StderrData(e, chunk) ==
  /\ ~crashed
  /\ ~stopped
  /\ HubIdle
  /\ NoTickPending
  /\ e \in DOMAIN execs
  /\ execs[e].state = "running"
  /\ chunked < load.chunks
  /\ chunked' = chunked + 1
  /\ execs' = [execs EXCEPT
       ![e].error = @ \o BufferToString(chunk),
       ![e].errBytes = @ \o chunk]
  /\ lastReq' = NoReq
  /\ lastResult' = NoResult
  /\ UNCHANGED <<now, pythonExecutionCount, tempDir, tempFiles, nextId,
                 crashed, admitLog, spawned, faults, load, limited>>

\* The child terminates, by itself or by a signal from outside; its 'close'
\* event is emitted once its pipes are closed.
ProcExit(e) ==
  /\ ~crashed
  /\ ~stopped
  /\ HubIdle
  /\ NoTickPending
  /\ e \in DOMAIN execs
  /\ execs[e].state = "running"
  /\ execs' = [execs EXCEPT ![e].state = "ended"]
  /\ lastReq' = NoReq
  /\ lastResult' = NoResult
  /\ UNCHANGED <<now, pythonExecutionCount, tempDir, tempFiles, nextId,
                 crashed, admitLog, spawned, chunked, faults, load, limited>>

\* spawn(..., { timeout: 30000, killSignal: 'SIGKILL' }): node's timer kills
\* the child.
TimeoutKill(e) ==
  /\ ~crashed
  /\ ~stopped
  /\ HubIdle
  /\ NoTickPending
  /\ e \in DOMAIN execs
  /\ execs[e].state = "running"
  /\ now - execs[e].started >= TimeoutMs
  /\ execs' = [execs EXCEPT ![e].state = "killed"]
  /\ lastReq' = NoReq
  /\ lastResult' = NoResult
  /\ UNCHANGED <<now, pythonExecutionCount, tempDir, tempFiles, nextId,
                 crashed, admitLog, spawned, chunked, faults, load, limited>>

\* errno of a failed spawn, which node reports as the exit code
Errno(errCode) == IF errCode = "ENOENT" THEN -2 ELSE -11

\* What node passes to the 'close' listener as `code`, with the signal that
\* ended the child: a child that ended by itself or by a signal from
\* outside, a child killed by the timer, a child that was never spawned.
ExitStatuses(e) ==
  IF execs[e].state = "ended"
  THEN { [code |-> Num(0), signal |-> "none"],
         [code |-> Num(1), signal |-> "none"],
         [code |-> NULL,   signal |-> "SIGTERM"] }
  ELSE IF execs[e].state = "killed"
  THEN { [code |-> NULL, signal |-> "SIGKILL"] }
  ELSE { [code |-> Num(Errno(execs[e].errCode)), signal |-> "none"] }

\* fs.unlinkSync(file) inside try/catch: whether it removes the file (it
\* throws when the file is not there or the file system refuses)
Unlinks(file, fsOK) == file \in tempFiles /\ fsOK

\* the file system refuses (fsOK = FALSE) at most load.faults times; the
\* watcher detects the removal of a scratch file it sees
Unlink(file, fsOK) ==
  /\ (file \in tempFiles /\ ~fsOK) => faults < load.faults
  /\ faults' = IF file \in tempFiles /\ ~fsOK THEN faults + 1 ELSE faults
  /\ tempFiles' = IF Unlinks(file, fsOK) THEN tempFiles \ {file}
                  ELSE tempFiles
  /\ IF Unlinks(file, fsOK) /\ Watched(file)
     THEN Detect("unlink", ScratchRel(file))
     ELSE UNCHANGED <<watcherQueue, issued>>

Result(e, via, st, resp, removed) ==
  [via |-> via, client |-> execs[e].client, resp |-> resp,
   exit |-> st.code, signal |-> st.signal,
   timedOut |-> execs[e].state = "killed", errCode |-> execs[e].errCode,
   output |-> execs[e].output, error |-> execs[e].error,
   outBytes |-> execs[e].outBytes, errBytes |-> execs[e].errBytes,
   removed |-> removed, warned |-> ~removed]

\* python.on('error', ...): the process could not be spawned.  Node may or
\* may not emit 'close' after 'error' (closeFollows).
OnError(e, fsOK, closeFollows) ==
  /\ ~crashed
  /\ ~stopped
  /\ HubSilent
  /\ e \in DOMAIN execs
  /\ execs[e].state = "spawnfail"
  /\ Unlink(execs[e].tempFile, fsOK)
  /\ lastResult' = Result(e, "error", [code |-> NULL, signal |-> "none"],
                     ErrorResponse(execs[e].errCode, execs[e].output),
                     Unlinks(execs[e].tempFile, fsOK))
  /\ lastReq' = NoReq
  /\ execs' = IF closeFollows
              THEN [execs EXCEPT ![e].state = "errored", ![e].answers = @ + 1]
              ELSE Retire(e)
  /\ UNCHANGED <<now, pythonExecutionCount, tempDir, nextId, crashed,
                 admitLog, spawned, chunked, load, limited>>

\* python.on('close', code => ...).  When the 'error' listener has already
\* answered, res.json throws ERR_HTTP_HEADERS_SENT out of the listener: the
\* exception is uncaught and node exits.
OnClose(e, st, fsOK) ==
  /\ ~crashed
  /\ ~stopped
  /\ HubSilent
  /\ NoTickPending
  /\ e \in DOMAIN execs
  /\ execs[e].state \in {"ended", "killed", "errored"}
  /\ st \in ExitStatuses(e)
  /\ Unlink(execs[e].tempFile, fsOK)
  /\ lastReq' = NoReq
  /\ IF execs[e].state = "errored"
     THEN /\ crashed' = TRUE
          /\ lastResult' = NoResult
          /\ execs' = [execs EXCEPT ![e].answers = @ + 1]
     ELSE /\ lastResult' = Result(e, "close", st,
                 CloseResponse(st.code, execs[e].output, execs[e].error),
                 Unlinks(execs[e].tempFile, fsOK))
          /\ execs' = Retire(e)
          /\ UNCHANGED crashed
  /\ UNCHANGED <<now, pythonExecutionCount, tempDir, nextId, admitLog,
                 spawned, chunked, load, limited>>

---------------------------------------------------------------------------
(* The observers (socket.io) and the watcher (chokidar)                     *)

execVars == <<now, pythonExecutionCount, tempDir, tempFiles, execs, nextId,
              crashed, stopped, admitLog, limited, spawned, chunked, faults,
              load, project, app>>

\* the messages; `of` is history: the number of the watcher event that
\* caused the message, 0 for the snapshot sent on connection
FileTreeMessage(of, tree) == [type |-> "fileTree", of |-> of, tree |-> tree]

FileChangeMessage(of, event, filePath, content) ==
  [type |-> "fileChange", of |-> of, event |-> event, path |-> filePath,
   relativePath |-> PathRelative(watchDir, filePath), content |-> content]

IoEmit_Everyone(box, msg) ==
  [k \in DOMAIN box |->
     IF sockets[k] # "new" THEN Append(box[k], msg) ELSE box[k]]

\* io.emit(...): to every socket that is connected
IoEmit(box, msg) ==
  [k \in DOMAIN box |->
     IF sockets[k] = "connected" THEN Append(box[k], msg) ELSE box[k]]

Connection_Broadcast(k) ==
  /\ ~crashed
  /\ ~stopped
  /\ sockets[k] = "new"
  /\ sockets' = [sockets EXCEPT ![k] = "connected"]
  /\ sent' = [j \in DOMAIN sent |->
       IF sockets'[j] = "connected"
       THEN <<FileTreeMessage(0, GetFileTree(Seen(disk), <<>>))>> ELSE <<>>]
  /\ lastReq' = NoReq
  /\ lastResult' = NoResult
  /\ lastFile' = NoFile
  /\ UNCHANGED <<watchDir, disk, watcherQueue, issued, handled>>
  /\ UNCHANGED execVars

\* io.on('connection', socket => socket.emit('fileTree', getFileTree(..)))
Connection(k) ==
  /\ ~crashed
  /\ ~stopped
  /\ sockets[k] = "new"
  /\ sockets' = [sockets EXCEPT ![k] = "connected"]
  /\ sent' = [NoSent EXCEPT
       ![k] = <<FileTreeMessage(0, GetFileTree(Seen(disk), <<>>))>>]
  /\ lastReq' = NoReq
  /\ lastResult' = NoResult
  /\ lastFile' = NoFile
  /\ UNCHANGED <<watchDir, disk, watcherQueue, issued, handled>>
  /\ UNCHANGED execVars

\* socket.on('disconnect', ...): socket.io has taken the socket out
Disconnect(k) ==
  /\ ~crashed
  /\ ~stopped
  /\ sockets[k] = "connected"
  /\ sockets' = [sockets EXCEPT ![k] = "gone"]
  /\ lastReq' = NoReq
  /\ lastResult' = NoResult
  /\ lastFile' = NoFile
  /\ sent' = NoSent
  /\ UNCHANGED <<watchDir, disk, watcherQueue, issued, handled>>
  /\ UNCHANGED execVars

\* a program writes the file rel below watchDir
FsWrite(rel) ==
  /\ ~crashed
  /\ ~stopped
  /\ IF Ignored(watchDir \o rel)
     THEN UNCHANGED <<watcherQueue, issued>>
     ELSE Detect(IF disk[rel] = "none" THEN "add" ELSE "change", rel)
  /\ disk' = [disk EXCEPT ![rel] = "text"]
  /\ lastReq' = NoReq
  /\ lastResult' = NoResult
  /\ lastFile' = NoFile
  /\ sent' = NoSent
  /\ UNCHANGED <<watchDir, sockets, handled>>
  /\ UNCHANGED execVars

\* a program removes the file rel
FsUnlink(rel) ==
  /\ ~crashed
  /\ ~stopped
  /\ disk[rel] # "none"
  /\ IF Ignored(watchDir \o rel)
     THEN UNCHANGED <<watcherQueue, issued>>
     ELSE Detect("unlink", rel)
  /\ disk' = [disk EXCEPT ![rel] = "none"]
  /\ lastReq' = NoReq
  /\ lastResult' = NoResult
  /\ lastFile' = NoFile
  /\ sent' = NoSent
  /\ UNCHANGED <<watchDir, sockets, handled>>
  /\ UNCHANGED execVars

\* a program takes the read permission of the file rel away
FsLock(rel) ==
  /\ ~crashed
  /\ ~stopped
  /\ disk[rel] = "text"
  /\ disk' = [disk EXCEPT ![rel] = "locked"]
  /\ lastReq' = NoReq
  /\ lastResult' = NoResult
  /\ lastFile' = NoFile
  /\ sent' = NoSent
  /\ UNCHANGED <<watchDir, sockets, watcherQueue, issued, handled>>
  /\ UNCHANGED execVars

HandleFileChange_TreeFirst ==
  /\ ~crashed
  /\ ~stopped
  /\ watcherQueue # <<>>
  /\ LET ev == Head(watcherQueue)
         change == FileChangeMessage(ev.id, ev.event, ev.path,
                     IF ev.event # "unlink"
                     THEN ReadFileIfExists(Seen(disk), ev.path) ELSE NULL)
         tree == FileTreeMessage(ev.id, GetFileTree(Seen(disk), <<>>))
     IN sent' = IoEmit(IoEmit(NoSent, tree), change)
  /\ watcherQueue' = Tail(watcherQueue)
  /\ handled' = handled + 1
  /\ lastReq' = NoReq
  /\ lastResult' = NoResult
  /\ lastFile' = NoFile
  /\ UNCHANGED <<watchDir, disk, sockets, issued>>
  /\ UNCHANGED execVars

\* handleFileChange(event, filePath), called by the watcher for its next
\* event
HandleFileChange ==
  /\ ~crashed
  /\ ~stopped
  /\ watcherQueue # <<>>
  /\ LET ev == Head(watcherQueue)
         change == FileChangeMessage(ev.id, ev.event, ev.path,
                     IF ev.event # "unlink"
                     THEN ReadFileIfExists(Seen(disk), ev.path) ELSE NULL)
         tree == FileTreeMessage(ev.id, GetFileTree(Seen(disk), <<>>))
     IN sent' = IoEmit(IoEmit(NoSent, change), tree)
  /\ watcherQueue' = Tail(watcherQueue)
  /\ handled' = handled + 1
  /\ lastReq' = NoReq
  /\ lastResult' = NoResult
  /\ lastFile' = NoFile
  /\ UNCHANGED <<watchDir, disk, sockets, issued>>
  /\ UNCHANGED execVars

---------------------------------------------------------------------------
(* The file routes: each handler runs to its response without interruption *)

fileVars == <<watchDir, sockets, watcherQueue, issued, handled>>

\* GET /api/files
ApiFiles ==
  /\ ~crashed
  /\ ~stopped
  /\ load.listing
  /\ lastFile' = FileResponse("files", <<>>, 200, GetFileTree(Seen(disk), <<>>))
  /\ lastReq' = NoReq
  /\ lastResult' = NoResult
  /\ sent' = NoSent
  /\ UNCHANGED disk
  /\ UNCHANGED fileVars
  /\ UNCHANGED execVars

\* GET /api/file/*
ApiFile(requestedPath) ==
  /\ ~crashed
  /\ ~stopped
  /\ lastFile' = GetFile(disk, requestedPath)
  /\ lastReq' = NoReq
  /\ lastResult' = NoResult
  /\ sent' = NoSent
  /\ UNCHANGED disk
  /\ UNCHANGED fileVars
  /\ UNCHANGED execVars

\* POST /api/format with the body { filepath, extension }
ApiFormat(filepath, extension) ==
  LET Answer(status, success, text) ==
        FileResponse("format", filepath, status,
                     [success |-> success, text |-> text])
  IN
  /\ ~crashed
  /\ ~stopped
  /\ IF filepath = <<>>
     THEN /\ lastFile' = Answer(400, FALSE, "Missing filepath or extension")
          /\ UNCHANGED disk
     ELSE IF ~ReadFileOK(disk, filepath)
     THEN /\ lastFile' = Answer(500, FALSE, "error.message")
          /\ UNCHANGED disk
     ELSE IF extension \notin FormattedExtensions
     THEN /\ lastFile' =
               Answer(400, FALSE, "File type not supported for formatting")
          /\ UNCHANGED disk
     ELSE /\ disk' = [disk EXCEPT ![filepath] = "formatted"]
          /\ lastFile' = Answer(200, TRUE, "File formatted successfully")
  /\ lastReq' = NoReq
  /\ lastResult' = NoResult
  /\ sent' = NoSent
  /\ UNCHANGED fileVars
  /\ UNCHANGED execVars

---------------------------------------------------------------------------
(* quickview init: the command runs from its first statement to its last *)

QuickviewInit ==
  LET written == { f \in ExampleNames : ExampleMissing(project.examples, f) }
      createdFiles == Cardinality(written)
  IN
  /\ project.runs < load.runs
  /\ project' =
       [examples |-> [f \in ExampleNames |->
                        IF f \in written THEN "example"
                        ELSE project.examples[f]],
        packageJson |-> UpdatePackageJson(project.packageJson),
        runs |-> project.runs + 1,
        createdFiles |-> createdFiles,
        report |-> IF createdFiles > 0
                   THEN "QuickView initialized! Created demo files."
                   ELSE "QuickView configuration updated."]
  /\ lastReq' = NoReq
  /\ lastResult' = NoResult
  /\ lastFile' = NoFile
  /\ sent' = NoSent
  /\ UNCHANGED <<now, pythonExecutionCount, tempDir, tempFiles, execs,
                 nextId, crashed, stopped, admitLog, limited, spawned, chunked,
                 faults, load>>
  /\ UNCHANGED <<disk, watchDir, sockets, watcherQueue, issued, handled,
                 app>>

---------------------------------------------------------------------------
\* process.on('SIGINT', () => { server.stop(); process.exit(0) }), where
\* stop() closes the watcher and the HTTP server.  The armed listeners and
\* timers end with the process; the files on disk stay as they are.
Sigint ==
  /\ ~crashed
  /\ ~stopped
  /\ load.signals
  /\ stopped' = TRUE
  /\ watcherQueue' = <<>>
  /\ sockets' = [k \in DOMAIN sockets |->
                   IF sockets[k] = "connected" THEN "gone" ELSE sockets[k]]
  /\ lastReq' = NoReq
  /\ lastResult' = NoResult
  /\ lastFile' = NoFile
  /\ sent' = NoSent
  /\ UNCHANGED <<now, pythonExecutionCount, tempDir, tempFiles, execs,
                 nextId, crashed, admitLog, limited, spawned, chunked,
                 faults, load, watchDir, disk, issued, handled, project,
                 app>>

---------------------------------------------------------------------------
(* The browser client.  A fetch reaches the server at once and is answered  *)
(* with the text the file has then; the responses of the fetches that are  *)
(* under way reach the client in any order.                                *)

\* the text of file after rev changes
TextAt(file, rev) == <<"text of">> \o file \o <<rev>>

\* a step of the browser: the server does nothing
ServerIdle ==
  /\ ~crashed
  /\ ~stopped
  /\ lastReq' = NoReq
  /\ lastResult' = NoResult
  /\ sent' = NoSent
  /\ lastFile' = NoFile
  /\ UNCHANGED hubQuiet
  /\ UNCHANGED <<now, pythonExecutionCount, tempDir, tempFiles, execs,
                 nextId, crashed, stopped, admitLog, limited, spawned,
                 chunked, faults, load, project>>

\* loadFile(file) up to its first await: the indicator is shown and the
\* fetch is under way
LoadFile(a, file) ==
  [a EXCEPT !.loading = TRUE,
            !.pending = Append(@, [file |-> file,
                                   content |-> TextAt(file, a.revs[file])])]

\* selectFile(file, element): a click on a file of the tree
SelectFile(file) ==
  /\ ServerIdle
  /\ app.calls < load.loads
  /\ app' = LoadFile([app EXCEPT !.currentFile = file,
                                  !.calls = @ + 1], file)

\* a program changes file and the client's socket.on('fileChange') runs
OnFileChange(file) ==
  /\ ServerIdle
  /\ app.calls < load.loads
  /\ LET changed == [app EXCEPT !.revs[file] = @ + 1, !.calls = @ + 1]
     IN app' = IF app.currentFile # NULL /\ file = app.currentFile
               THEN LoadFile(changed, app.currentFile)
               ELSE changed

\* the rest of loadFile(file), when the response of its fetch has arrived
LoadResponse(i) ==
  /\ ServerIdle
  /\ i \in 1..Len(app.pending)
  /\ app' = [app EXCEPT
       !.pending = SubSeq(@, 1, i - 1) \o SubSeq(@, i + 1, Len(@)),
       !.current = Basename(app.pending[i].file),
       !.code = app.pending[i].content,
       !.preview = app.pending[i].content,
       !.loading = FALSE]

Next ==
  \/ \E c \in load.clients, in \in load.inputs :
        ExecutePython(c, in.code, in.filename, in.writeOK, in.spawnRes)
  \/ \E d \in load.ticks : Tick(d)
  \/ \E e \in DOMAIN execs, chunk \in Chunks : StdoutData(e, chunk)
  \/ \E e \in DOMAIN execs, chunk \in Chunks : StderrData(e, chunk)
  \/ \E e \in DOMAIN execs : ProcExit(e)
  \/ \E e \in DOMAIN execs : TimeoutKill(e)
  \/ \E e \in DOMAIN execs, fsOK \in BOOLEAN, closeFollows \in BOOLEAN :
        OnError(e, fsOK, closeFollows)
  \/ \E e \in DOMAIN execs :
        \E st \in ExitStatuses(e), fsOK \in BOOLEAN : OnClose(e, st, fsOK)
  \/ \E k \in DOMAIN sockets : Connection(k)
  \/ \E k \in DOMAIN sockets : Disconnect(k)
  \/ \E rel \in load.names : FsWrite(rel)
  \/ \E rel \in load.names : FsUnlink(rel)
  \/ \E rel \in load.names : FsLock(rel)
  \/ HandleFileChange
  \/ ApiFiles
  \/ \E p \in load.paths : ApiFile(p)
  \/ \E in \in load.formats : ApiFormat(in.filepath, in.extension)
  \/ QuickviewInit
  \/ Sigint
  \/ \E file \in load.names : SelectFile(file)
  \/ \E file \in load.names : OnFileChange(file)
  \/ \E i \in 1..MaxLoads : LoadResponse(i)

Spec == Init /\ [][Next]_vars

---------------------------------------------------------------------------
(* Progress of executions.  The event loop runs every callback that is due: *)
(* time passes, the timer of spawn() fires at its deadline, and the 'error' *)
(* and 'close' events of a child are delivered to their listeners.  That a  *)
(* child ends by itself is not assumed.                                     *)

LiveInit == Init /\ load = FailureLoad

LiveNext ==
  \/ \E c \in load.clients, in \in load.inputs :
        ExecutePython(c, in.code, in.filename, in.writeOK, in.spawnRes)
  \/ \E d \in load.ticks : Tick(d)
  \/ \E e \in DOMAIN execs : ProcExit(e)
  \/ \E e \in DOMAIN execs : TimeoutKill(e)
  \/ \E e \in DOMAIN execs, fsOK \in BOOLEAN, closeFollows \in BOOLEAN :
        OnError(e, fsOK, closeFollows)
  \/ \E e \in DOMAIN execs :
        \E st \in ExitStatuses(e), fsOK \in BOOLEAN : OnClose(e, st, fsOK)

Fairness ==
  /\ WF_vars(\E d \in load.ticks : Tick(d))
  /\ \A e \in 1..MaxSpawns :
        /\ WF_vars(TimeoutKill(e))
        /\ WF_vars(\E fsOK \in BOOLEAN, closeFollows \in BOOLEAN :
                      OnError(e, fsOK, closeFollows))
        /\ WF_vars(/\ e \in DOMAIN execs
                   /\ \E st \in ExitStatuses(e), fsOK \in BOOLEAN :
                         OnClose(e, st, fsOK))

LiveSpec == LiveInit /\ [][LiveNext]_vars /\ Fairness

TypeOK ==
  /\ now \in 0..load.until
  /\ nextId \in 1..(load.requests + 1)
  /\ crashed \in BOOLEAN
  /\ stopped \in BOOLEAN
  /\ app.loading \in BOOLEAN
  /\ app.calls \in 0..load.loads
  /\ Len(app.pending) <= app.calls
  /\ app.currentFile \in HubFiles \cup {NULL}
  /\ tempDir \in BOOLEAN
  /\ DOMAIN execs \subseteq 1..load.requests

---------------------------------------------------------------------------
(* Rate limiting of POST /api/execute/python *)

\* C1: when 5 requests of the requester passed the rate check in the 60
\* seconds before a request, the handler answers it 429 with success=false,
\* writes no scratch file, creates no scratch directory and spawns nothing.
C1_RateLimitedRunsNothing ==
  [][(lastReq'.handled /\ lastReq'.prior >= 5) =>
        /\ lastReq'.resp.status = 429
        /\ lastReq'.resp.success = FALSE
        /\ tempFiles' = tempFiles
        /\ tempDir' = tempDir
        /\ execs' = execs
        /\ spawned' = spawned]_vars

\* a request with runnable code that was answered 429 after 5 requests of
\* the same client had their code run
C1_Witness ==
  /\ lastReq.handled
  /\ lastReq.runnable
  /\ lastReq.prior >= 5
  /\ spawned >= 5
  /\ lastReq.resp = TooManyResponse

\* C2: the stored window of every client holds at most 5 timestamps, and a
\* request answered 429 leaves the stored windows as they were.
C2_WindowBounded ==
  /\ [](\A c \in Clients : Len(pythonExecutionCount[c]) <= 5)
  /\ [][(lastReq'.handled /\ lastReq'.resp.status = 429) =>
           pythonExecutionCount' = pythonExecutionCount]_vars

\* a 429 for a client whose stored window is full
C2_Witness ==
  /\ lastReq.handled
  /\ lastReq.resp.status = 429
  /\ Len(pythonExecutionCount[lastReq.client]) = 5

\* C3: a request is not answered 429 when fewer than 5 requests of the
\* requester passed the rate check in the 60 seconds before it, however
\* many passed it earlier.
C3_ExpiredTimestampsStopCounting ==
  (lastReq.handled /\ lastReq.prior < 5) => lastReq.resp.status # 429

\* a client that had its code run 5 times and got a 429 is admitted again
\* 61 seconds after the first of the 5
C3_Witness ==
  /\ lastReq.handled
  /\ lastReq.resp.status # 429
  /\ lastReq.client \in limited
  /\ spawned >= 5
  /\ Len(admitLog[lastReq.client]) >= 6
  /\ now - admitLog[lastReq.client][1] = 61000

\* C4: a request answered 400 (invalid code, code too large) leaves the
\* stored windows as they were.
C4_ValidationRejectionKeepsWindow ==
  [][(lastReq'.handled /\ lastReq'.resp.status = 400) =>
        pythonExecutionCount' = pythonExecutionCount]_vars

\* C5: of the requests of one client that passed the rate check, any 6 span
\* at least 60 seconds, also when requests arrive at the same instant.
C5_AtMostFivePerWindow ==
  \A c \in Clients : \A i \in 1..Len(admitLog[c]) :
     i + 5 <= Len(admitLog[c]) =>
        admitLog[c][i + 5] - admitLog[c][i] >= 60000

\* six requests of one client handled at the same instant: five admitted,
\* the sixth answered 429
C5_Witness ==
  /\ lastReq.handled
  /\ lastReq.resp.status = 429
  /\ Len(admitLog[lastReq.client]) >= 5
  /\ \A i \in 1..Len(admitLog[lastReq.client]) :
        admitLog[lastReq.client][i] = now

---------------------------------------------------------------------------
(* Completion of an execution *)

\* C6: the scratch file of an execution is removed (or the failure of its
\* removal is logged, the response being what it is otherwise) once its
\* interpreter has terminated: also when node is gone, no scratch file is
\* left of a child that has terminated.
C6_ScratchFileRemoved ==
  /\ lastResult.via # "none" => (lastResult.removed \/ lastResult.warned)
  /\ lastResult.via = "close" =>
        lastResult.resp =
          Response(200, lastResult.exit = Num(0), lastResult.error,
                   lastResult.output, lastResult.exit)
  /\ crashed =>
        \A e \in DOMAIN execs :
           execs[e].state \in {"ended", "killed"} =>
              execs[e].tempFile \notin tempFiles

\* C7: the response for a child killed by the 30 s timer has success=false,
\* differs from the response for a child that exits non-zero or by a signal
\* with the same output, and the scratch file is gone.
C7_TimeoutDistinguishable ==
  lastResult.timedOut =>
     /\ lastResult.resp.success = FALSE
     /\ \A code \in {NULL, Num(1)} :
           lastResult.resp #
             Response(200, FALSE, lastResult.error, lastResult.output, code)
     /\ lastResult.removed \/ lastResult.warned

\* C8: the response for a child killed by the 30 s timer carries the stdout
\* and the stderr captured until then.
C8_TimeoutKeepsOutput ==
  lastResult.timedOut =>
     /\ lastResult.resp.output = lastResult.output
     /\ lastResult.resp.error = lastResult.error

\* a child killed by the timer after it wrote to stdout and to stderr
C8_Witness ==
  /\ lastResult.timedOut
  /\ lastResult.via = "close"
  /\ lastResult.output # <<>>
  /\ lastResult.error # <<>>

\* C9: a failed spawn is answered with success=false and the spawn error,
\* and node keeps running.
C9_SpawnErrorSurvives ==
  /\ lastResult.via = "error" =>
        /\ lastResult.resp.success = FALSE
        /\ lastResult.resp.status = 500
        /\ lastResult.resp.error =
             <<"Failed to execute Python script: ", lastResult.errCode>>
  /\ ~crashed

\* C10: the response of the 'close' listener has success=true exactly when
\* the child exited with code 0, carries the exit code of a child that
\* exited, and has success=false for a child ended by a signal; the
\* response of the 'error' listener has success=false.
C10_SuccessIffExitZero ==
  /\ lastResult.via = "close" =>
        /\ lastResult.resp.success = (lastResult.exit = Num(0))
        /\ lastResult.exit # NULL => lastResult.resp.exitCode = lastResult.exit
        /\ lastResult.signal # "none" => lastResult.resp.success = FALSE
  /\ lastResult.via = "error" => lastResult.resp.success = FALSE

\* a child that exited with code 1
C10_Witness ==
  /\ lastResult.via = "close"
  /\ lastResult.exit = Num(1)
  /\ lastResult.resp.exitCode = Num(1)
  /\ lastResult.resp.success = FALSE

---------------------------------------------------------------------------
(* Validation of the request body *)

FiftyKiB == 50 * 1024

\* C11: a request that passed the rate check and carries a non-empty string
\* is answered 'Python code too large' exactly when the text is larger than
\* 51200 bytes, and then no scratch file is written and nothing is spawned.
C11_TooLargeByBytes ==
  [][(/\ lastReq'.handled
      /\ lastReq'.resp.status # 429
      /\ lastReq'.code.type = "string"
      /\ lastReq'.code.len > 0) =>
        /\ (lastReq'.resp = TooLargeResponse) = (lastReq'.code.bytes > FiftyKiB)
        /\ lastReq'.resp = TooLargeResponse =>
              /\ tempFiles' = tempFiles
              /\ execs' = execs
              /\ spawned' = spawned]_vars

\* C12: a request that passed the rate check and whose code is absent, the
\* empty string or not a string is answered 400 'Invalid Python code
\* provided'; it creates no scratch directory, writes no scratch file and
\* spawns nothing.
C12_InvalidInputRejected ==
  [][(/\ lastReq'.handled
      /\ lastReq'.resp.status # 429
      /\ (lastReq'.code.type # "string" \/ lastReq'.code.len = 0)) =>
        /\ lastReq'.resp = InvalidResponse
        /\ tempDir' = tempDir
        /\ tempFiles' = tempFiles
        /\ execs' = execs
        /\ spawned' = spawned]_vars

\* a request whose body carries a number as code is answered 400 before the
\* scratch directory has ever been created
C12_Witness ==
  /\ lastReq.handled
  /\ lastReq.code.type = "number"
  /\ lastReq.resp = InvalidResponse
  /\ ~tempDir

---------------------------------------------------------------------------
(* Scratch files *)

\* C13: two executions that are in flight at the same time have different
\* scratch files.
C13_ScratchPathsDiffer ==
  \A e1, e2 \in DOMAIN execs :
     e1 # e2 => execs[e1].tempFile # execs[e2].tempFile

---------------------------------------------------------------------------
(* Output of children that run side by side *)

\* C14: the result of an execution that ends while an execution of another
\* client is in flight carries the text its own child wrote to stdout and
\* to stderr, nothing else.
C14_OwnOutputOnly ==
  (/\ lastResult.via = "close"
   /\ \E e \in DOMAIN execs : execs[e].client # lastResult.client) =>
     /\ lastResult.resp.output = BufferToString(lastResult.outBytes)
     /\ lastResult.resp.error = BufferToString(lastResult.errBytes)

\* C15: when no execution is in flight the scratch directory holds no
\* scratch file.
C15_ScratchDirEmptyWhenIdle ==
  DOMAIN execs = {} => tempFiles = {}

---------------------------------------------------------------------------
(* Observers and watcher *)

\* C16: the step in which a socket connects sends that socket exactly one
\* message, the snapshot of the watched directory as it is then, and sends
\* nothing to any other socket; a change event is sent only for a watcher
\* event emitted in that very step, never for an earlier one.
C16_SnapshotOnConnect ==
  [][\A k \in DOMAIN sockets :
       /\ (sockets[k] = "new" /\ sockets'[k] = "connected") =>
             /\ sent'[k] =
                  <<FileTreeMessage(0, GetFileTree(Seen(disk'), <<>>))>>
             /\ \A j \in DOMAIN sockets \ {k} : sent'[j] = <<>>
       /\ \A i \in 1..Len(sent'[k]) :
             sent'[k][i].type = "fileChange" =>
                /\ sockets[k] = "connected"
                /\ sent'[k][i].of > handled]_vars

\* a socket connects after watcher events were emitted, while another
\* socket is connected: it gets the snapshot of a directory that holds files
C16_Witness ==
  \E k, j \in DOMAIN sockets :
     /\ k # j
     /\ sockets[j] = "connected"
     /\ sent[j] = <<>>
     /\ handled >= 1
     /\ Len(sent[k]) = 1
     /\ sent[k][1].of = 0
     /\ sent[k][1].tree # <<>>

\* C17: what a step sends to a socket is nothing, the snapshot of the
\* connection, or the change event of the next watcher event followed by
\* the snapshot built for that same event; watcher events are served in the
\* order of their emission.
C17_ChangeBeforeSnapshot ==
  [][\A k \in DOMAIN sockets :
       \/ sent'[k] = <<>>
       \/ /\ Len(sent'[k]) = 1
          /\ sent'[k][1].type = "fileTree"
          /\ sent'[k][1].of = 0
       \/ /\ Len(sent'[k]) = 2
          /\ sent'[k][1].type = "fileChange"
          /\ sent'[k][2].type = "fileTree"
          /\ sent'[k][1].of = handled + 1
          /\ sent'[k][2].of = handled + 1
          /\ handled' = handled + 1]_vars

\* the second watcher event is served: two sockets get its change event and
\* then its snapshot
C17_Witness ==
  /\ handled = 2
  /\ \A k \in DOMAIN sockets :
        /\ Len(sent[k]) = 2
        /\ sent[k][1].type = "fileChange"
        /\ sent[k][1].of = 2
        /\ sent[k][2].type = "fileTree"

\* C18: a run of handleFileChange sends every connected socket one change
\* event and one snapshot for the event it serves and nothing to any other
\* socket; every watcher event is served once; no other step sends a change
\* event.
C18_OneBroadcastPerEvent ==
  [][/\ handled' \in {handled, handled + 1}
     /\ handled' <= issued'
     /\ handled' = handled + 1 =>
          /\ watcherQueue # <<>>
          /\ watcherQueue' = Tail(watcherQueue)
          /\ Head(watcherQueue).id = handled + 1
          /\ \A k \in DOMAIN sockets :
                IF sockets[k] = "connected"
                THEN /\ Len(sent'[k]) = 2
                     /\ sent'[k][1].type = "fileChange"
                     /\ sent'[k][1].event = Head(watcherQueue).event
                     /\ sent'[k][1].path = Head(watcherQueue).path
                     /\ sent'[k][2].type = "fileTree"
                ELSE sent'[k] = <<>>
     /\ handled' = handled =>
          \A k \in DOMAIN sockets : \A i \in 1..Len(sent'[k]) :
             sent'[k][i].type # "fileChange"]_vars

\* the first event of a burst is served while one socket is connected and
\* another has disconnected
C18_Witness ==
  /\ handled >= 1
  /\ watcherQueue # <<>>
  /\ \E k, j \in DOMAIN sockets :
        /\ sockets[k] = "connected"
        /\ Len(sent[k]) = 2
        /\ sockets[j] = "gone"
        /\ sent[j] = <<>>

\* C19: a change event for add or change carries the text of the file when
\* the file can be read while the event is served and null otherwise, a
\* change event for unlink carries null; the snapshot follows in every case
\* and the server keeps running.
C19_ContentWhenReadable ==
  /\ \A k \in DOMAIN sockets :
        (sent[k] # <<>> /\ sent[k][1].type = "fileChange") =>
           LET m == sent[k][1]
               d == Seen(disk)
           IN /\ m.content =
                   IF /\ m.event # "unlink"
                      /\ m.relativePath \in DOMAIN d
                      /\ d[m.relativePath] = "text"
                   THEN Content(m.relativePath) ELSE NULL
              /\ Len(sent[k]) = 2
              /\ sent[k][2].type = "fileTree"
  /\ load.events > 0 => ~crashed

\* the change event of a file that was removed, or made unreadable, before
\* its event was served
C19_Witness ==
  \E k \in DOMAIN sockets :
     /\ Len(sent[k]) = 2
     /\ sent[k][1].type = "fileChange"
     /\ sent[k][1].event \in {"add", "change"}
     /\ sent[k][1].content = NULL
     /\ sent[k][2].type = "fileTree"

RECURSIVE NodesOf(_)
NodesOf(tree) ==
  IF tree = <<>> THEN {}
  ELSE {[name |-> Head(tree).name, path |-> Head(tree).path]}
         \cup (IF Head(tree).type = "directory"
               THEN NodesOf(Head(tree).children) ELSE {})
         \cup NodesOf(Tail(tree))

\* C20: no message sent to a socket holds an absolute path: not the nodes of
\* a snapshot, not the fields of a change event.
C20_NoAbsolutePaths ==
  \A k \in DOMAIN sockets : \A i \in 1..Len(sent[k]) :
     LET m == sent[k][i]
     IN IF m.type = "fileTree"
        THEN \A n \in NodesOf(m.tree) : ~IsAbsolute(n.path)
        ELSE ~IsAbsolute(m.path) /\ ~IsAbsolute(m.relativePath)

---------------------------------------------------------------------------
(* The snapshot of the project: getFileTree, as GET /api/files returns it *)

\* the paths of the nodes of a snapshot
PathsOf(tree) == { n.path : n \in NodesOf(tree) }

\* the lists of siblings of a snapshot: the top level and the children of
\* every directory
RECURSIVE LevelsOf(_)
LevelsOf(tree) ==
  {tree} \cup
  UNION { LevelsOf(tree[i].children) :
            i \in { k \in 1..Len(tree) : tree[k].type = "directory" } }

\* no name on the way to p is one the scan passes over
Listed(p) == \A i \in 1..Len(p) : ~Skipped(p[i])

\* C21: when a name of the project cannot be stat'ed, the snapshot still
\* holds every other file whose name and whose directories' names are not
\* excluded, the siblings of the failing name among them.
C21_OnlyFailingEntryOmitted ==
  (lastFile.api = "files" /\ \E q \in DOMAIN disk : disk[q] = "broken") =>
     \A p \in Present(disk) :
        (disk[p] # "broken" /\ Listed(p)) => p \in PathsOf(lastFile.body)

C23_ListedIffNotExcluded ==
  lastFile.api = "files" =>
     \A p \in Present(disk) :
        disk[p] \in Readable => (p \in PathsOf(lastFile.body) <=> Listed(p))

---------------------------------------------------------------------------
(* GET /api/file/* *)

\* C24: a request for a path of which the file name or the name of a
\* directory begins with '.' is refused with 'Access to hidden files
\* denied', unless the file name ends in .html.
C24_HiddenPathsRefused ==
  (/\ lastFile.api = "file"
   /\ \E i \in 1..Len(lastFile.path) : StartsWithDot(lastFile.path[i])
   /\ ~EndsWithHtml(Basename(lastFile.path))) =>
     /\ lastFile.status = 403
     /\ lastFile.body.error = "Access to hidden files denied"

\* C25: content is returned only for a file whose extension is in the
\* allowed list; a file of another type, or without an extension, is
\* refused.
C25_OnlyAllowedExtensionsServed ==
  (lastFile.api = "file" /\ lastFile.status = 200) =>
     ExtName(Basename(lastFile.path)) \in AllowedExtensions

\* C26: a request for a file ends with the content and the extension, with
\* NotFound (404) or with AccessDenied (403), whatever the path names.
C26_ThreeOutcomes ==
  lastFile.api = "file" =>
     \/ /\ lastFile.status = 200
        /\ {"content", "extension"} \subseteq DOMAIN lastFile.body
     \/ lastFile.status = 404
     \/ lastFile.status = 403

---------------------------------------------------------------------------
(* What requests do to the watched directory *)

\* C27: a step in which the server handles a request (a file route, the
\* execute route, a listener that answers an execute request) leaves every
\* file of the watched directory as it was.
C27_RequestsLeaveFilesAlone ==
  [][(\/ lastFile'.api # "none"
      \/ lastReq'.handled
      \/ lastResult'.via # "none") => disk' = disk]_vars

---------------------------------------------------------------------------
(* quickview init *)

\* C28: a run of quickview init leaves every example file that exists as it
\* is, and a run after the first changes no file and reports no created
\* example file.
C28_InitKeepsExistingFiles ==
  [][project'.runs = project.runs + 1 =>
       /\ \A f \in ExampleNames :
             project.examples[f] # "none" =>
                project'.examples[f] = project.examples[f]
       /\ project.runs >= 1 =>
             /\ project'.examples = project.examples
             /\ project'.packageJson = project.packageJson
             /\ project'.createdFiles = 0
             /\ project'.report = "QuickView configuration updated."]_vars

\* the second run has ended in a directory in which the first run wrote an
\* example file beside one that was there before, and rewrote package.json
C28_Witness ==
  /\ project.runs = 2
  /\ \E f \in ExampleNames : project.examples[f] = "user"
  /\ \E f \in ExampleNames : project.examples[f] = "example"
  /\ project.packageJson.layout = "indent2"

---------------------------------------------------------------------------
(* The responses of the execute route *)

\* C29: res.json is called once for an execute request whose child is
\* spawned: no listener answers a request that has its answer, and node
\* does not exit while a request is without one.
C29_ExactlyOneResponse ==
  /\ \A e \in DOMAIN execs : execs[e].answers <= 1
  /\ crashed => \A e \in DOMAIN execs : execs[e].answers = 1

---------------------------------------------------------------------------
(* Where the scratch files are *)

\* C30: every scratch file that exists is in the scratch directory or
\* below it, whatever label the request carried.
C30_ScratchFilesInsideScratchDir ==
  \A f \in tempFiles : IsPrefix(ScratchDir, TempPath(f).dir)

---------------------------------------------------------------------------
(* Progress of the execute route *)

\* the request e has a child and no answer yet, and the deadline of the
\* child lies within the time the clock runs
Waiting(e) ==
  /\ e \in DOMAIN execs
  /\ execs[e].answers = 0
  /\ execs[e].started + TimeoutMs <= load.until

\* the request e has its answer: from the 'close' listener, which retires
\* it, or from the 'error' listener
Answered(e) == e \notin DOMAIN execs \/ execs[e].answers > 0

\* C31: a request that has passed admission and validation and has a child
\* gets its answer in the end.
C31_EveryExecutionAnswered ==
  \A e \in 1..MaxSpawns : Waiting(e) ~> Answered(e)


\* a message about a file in or below the scratch directory
AboutScratch(msg) ==
  /\ msg.type = "fileChange"
  /\ IsPrefix(ScratchDir, msg.path)

\* C32: handling an execute request (the route handler, or the 'error' or
\* 'close' listener of its process) makes the watcher detect nothing, and no
\* observer is ever sent a change event about a scratch file, whatever the
\* watched directory is.
C32_ExecuteUnseenByObservers ==
  [][/\ (lastReq'.handled \/ lastResult'.via # "none")
          => watcherQueue' = watcherQueue
     /\ \A k \in DOMAIN sent' : \A i \in 1..Len(sent'[k]) :
          ~AboutScratch(sent'[k][i])]_vars

\* C33: no change event sent to an observer carries the content of a hidden
\* file (a name that begins with '.' and does not end in .html): such an
\* event, if sent at all, has no content.
C33_HiddenContentNotPushed ==
  \A k \in DOMAIN sent : \A i \in 1..Len(sent[k]) :
     (/\ sent[k][i].type = "fileChange"
      /\ \E j \in 1..Len(sent[k][i].relativePath) :
            /\ StartsWithDot(sent[k][i].relativePath[j])
            /\ ~EndsWithHtml(sent[k][i].relativePath[j]))
       => sent[k][i].content = NULL

\* C34: once the server has shut down on SIGINT, no scratch file exists.
C34_NoScratchAfterShutdown ==
  stopped => tempFiles = {}

\* C35: a request of one client leaves the stored window of every other
\* client as it was, and it is answered 429 exactly when 5 or more requests
\* of the same client passed the rate check in the 60 seconds before it,
\* whatever the other clients have sent.
C35_ClientsRateLimitedApart ==
  [][lastReq'.handled =>
        /\ \A c \in Clients \ {lastReq'.client} :
              pythonExecutionCount'[c] = pythonExecutionCount[c]
        /\ (lastReq'.resp.status = 429)
              <=> (AdmittedWithin(lastReq'.client, now) >= MaxExecutions)]_vars

\* a client is admitted while another client, which has used up its 5
\* executions of the minute, has just been refused
C35_Witness ==
  /\ lastReq.handled
  /\ lastReq.client = "ip2"
  /\ lastReq.resp.status # 429
  /\ "ip1" \in limited
  /\ AdmittedWithin("ip1", now) >= MaxExecutions
  /\ Len(admitLog["ip2"]) = 1

\* C36: in the browser client, when no load is under way the code and
\* preview panels show the present text of the selected file, and the
\* loading indicator is hidden only when no load is under way.
C36_PanelsShowSelectedFile ==
  /\ (app.pending = <<>> /\ app.currentFile # NULL) =>
        /\ app.code = TextAt(app.currentFile, app.revs[app.currentFile])
        /\ app.preview = app.code
        /\ app.current = Basename(app.currentFile)
  /\ ~app.loading => app.pending = <<>>

=============================================================================
